---- MODULE Spec2Model ----
(***************************************************************************)
(* Model of src/src/main.rs: the firmware's main() and wifi().             *)
(*                                                                         *)
(* main() verifies the SHTC3 sensor, brings the wireless interface up      *)
(* through wifi(), creates the MQTT client and then loops forever:         *)
(* start_measurement, delay 100 ms, get_measurement_result, serialize,     *)
(* publish, log, delay 500 ms.  Every fallible call is followed by `?`     *)
(* or .unwrap(), so its failure ends the process.                          *)
(*                                                                         *)
(* The radio driver is an environment process that changes the interface   *)
(* status behind the program's back (association, DHCP, link loss).        *)
(***************************************************************************)
EXTENDS Integers, Sequences, FiniteSets, TLC

VARIABLES
    pc,            \* position of the main thread in main()/wifi()
    exitCause,     \* "none" while running; what ended the process otherwise
    mqtt_user,     \* CONFIG.mqtt_user
    nIdent,        \* calls of sht.device_identifier()
    wifiCreated,   \* EspWifi::new has returned a driver
    ifStatus,      \* status of the wireless interface, owned by the driver
    statusChanges, \* status changes made by the driver so far
    nSetConf,      \* calls of wifi.set_configuration
    nWait,         \* calls of wifi.wait_status_with_timeout
    elapsed,       \* seconds spent inside wait_status_with_timeout
    status,        \* wifi(): `let status = wifi.get_status()`
    wifiResult,    \* what wifi() returned: "none", "Ok", "Err"
    wifiErr,       \* the anyhow error wifi() returned, <<>> if none
    wifiFail,      \* the statement of wifi() that raised the error
    terminalInWait,\* the interface showed a non-transitional status during the wait
    doneAtPoll,    \* elapsed when the interface reached the composite and stayed; -1
    clientCreated, \* EspMqttClient::new has returned a client
    sensor,        \* "idle", "measuring", "ready": the SHTC3's conversion
    measurement,   \* main(): `let measurement`
    js,            \* main(): `let js`
    cycle,         \* iteration of the loop, from 1
    hist,          \* what the loop has done so far, in order
    deviceId,      \* what device_identifier() returned: "none", "ok", "err"
    nWifiCalls,    \* calls of wifi()
    nGetStatus,    \* calls of wifi.get_status
    wifiDropped,   \* the Box<EspWifi> has been dropped
    waitEndStatus, \* the status on which wait_status_with_timeout returned Ok
    postWaitStatus,\* the status the driver set between that return and get_status
    nClientNew,    \* calls of EspMqttClient::new
    callbacks,     \* invocations of the client's callback by the transport's task
    cbLog,         \* the lines the callback has logged
    log            \* the lines the main thread has logged, the fatal error included

vars == <<pc, exitCause, mqtt_user, nIdent, wifiCreated, ifStatus, statusChanges,
          nSetConf, nWait, elapsed, status, wifiResult, wifiErr, wifiFail,
          terminalInWait, doneAtPoll, clientCreated, sensor, measurement, js,
          cycle, hist, deviceId, nWifiCalls, nGetStatus, wifiDropped, waitEndStatus,
          postWaitStatus, nClientNew, callbacks, cbLog, log>>

wifiVars == <<wifiCreated, nSetConf, nWait, elapsed, status, wifiResult, wifiErr,
              wifiFail, nWifiCalls, nGetStatus, wifiDropped>>
waitHist == <<terminalInWait, doneAtPoll, waitEndStatus, postWaitStatus>>
driverVars == <<ifStatus, statusChanges>>
clientVars == <<clientCreated, nClientNew>>
loopVars == <<clientVars, sensor, measurement, js, cycle, hist>>
identVars == <<nIdent, deviceId>>
cbVars == <<callbacks, cbLog>>

(***************************************************************************)
(* Bounds of the model.                                                    *)
(***************************************************************************)
MaxCycles == 2
MaxStatusChanges == 3
PollInterval == 1
MaxEvents == 1

(***************************************************************************)
(* Constants of the program.                                               *)
(***************************************************************************)
WifiTimeoutSecs == 20
SettlingDelayMs == 100
CycleDelayMs == 500

Users == {"", "alice"}

\* Readings of the sensor, <<temperature, humidity>>, in tenths of a unit.
Readings == {<<220, 500>>, <<215, 472>>, <<-55, 1000>>}

NoReading == <<>>
NoPayload == <<>>

(***************************************************************************)
(* embedded_svc::wifi::Status(ClientStatus, ApStatus).  With               *)
(* Configuration::Client the access-point half stays Stopped.              *)
(***************************************************************************)
ClientStatuses == {"Stopped", "Disconnected", "Connecting", "ConnectedWaiting",
                   "ConnectedDone"}

Status(client) == <<client, "Stopped">>

NoStatus == <<>>

\* Status::is_transitional, the negation of which is the matcher of line 158.
IsTransitional(s) == s[1] \in {"Connecting", "ConnectedWaiting"}

\* A pattern that accepts Connected(_) whatever the state of the IP configuration.
IsConnectedDone_AnyConnected(s) == s[1] \in {"ConnectedWaiting", "ConnectedDone"}

\* The pattern of lines 163-168.
IsConnectedDone(s) == s[1] = "ConnectedDone"

\* The changes of status the driver's event handler makes.
DriverMoves(c) ==
    CASE c = "Stopped"          -> {"Connecting"}
      [] c = "Connecting"       -> {"ConnectedWaiting", "Disconnected"}
      [] c = "ConnectedWaiting" -> {"ConnectedDone", "Disconnected"}
      [] c = "ConnectedDone"    -> {"ConnectedWaiting", "Disconnected"}
      [] c = "Disconnected"     -> {"Connecting"}

Init ==
    /\ pc = "i2c_new"
    /\ exitCause = "none"
    /\ mqtt_user \in Users
    /\ nIdent = 0
    /\ wifiCreated = FALSE
    /\ ifStatus = Status("Stopped")
    /\ statusChanges = 0
    /\ nSetConf = 0
    /\ nWait = 0
    /\ elapsed = 0
    /\ status = NoStatus
    /\ wifiResult = "none"
    /\ wifiErr = <<>>
    /\ wifiFail = "none"
    /\ terminalInWait = FALSE
    /\ doneAtPoll = -1
    /\ clientCreated = FALSE
    /\ sensor = "idle"
    /\ measurement = NoReading
    /\ js = NoPayload
    /\ cycle = 1
    /\ hist = <<>>
    /\ deviceId = "none"
    /\ nWifiCalls = 0
    /\ nGetStatus = 0
    /\ wifiDropped = FALSE
    /\ waitEndStatus = NoStatus
    /\ postWaitStatus = NoStatus
    /\ nClientNew = 0
    /\ callbacks = 0
    /\ cbLog = <<>>
    /\ log = <<>>

\* The process ends: `?` returns the error from main, unwrap() panics.
\* The runtime prints the error main returned, or the panic's message.
Exit(cause) ==
    /\ pc' = "exit"
    /\ exitCause' = cause
    /\ log' = Append(log, <<"fatal", cause>>)

Goto(next) ==
    /\ pc' = next
    /\ UNCHANGED <<exitCause, log>>

\* info!(...) and then the next statement.
InfoGoto(line, next) ==
    /\ pc' = next
    /\ log' = Append(log, line)
    /\ UNCHANGED exitCause

\* info!(...) and then the end of the process.
InfoExit(line, cause) ==
    /\ pc' = "exit"
    /\ exitCause' = cause
    /\ log' = log \o <<line, <<"fatal", cause>> >>

(***************************************************************************)
(* main(), lines 57-87: start-up.                                          *)
(***************************************************************************)
I2cNew ==
    /\ pc = "i2c_new"
    /\ \E ok \in BOOLEAN : IF ok THEN Goto("device_identifier") ELSE Exit("i2c")
    /\ UNCHANGED <<mqtt_user, cbVars, identVars, wifiVars, waitHist, driverVars, loopVars>>

\* The identifier asked for and its failure ignored instead of unwrap().
DeviceIdentifier_IgnoreError ==
    /\ pc = "device_identifier"
    /\ nIdent' = nIdent + 1
    /\ \E ok \in BOOLEAN :
         /\ deviceId' = IF ok THEN "ok" ELSE "err"
         /\ Goto("stacks_new")
    /\ UNCHANGED <<mqtt_user, cbVars, wifiVars, waitHist, driverVars, loopVars>>

DeviceIdentifier ==
    /\ pc = "device_identifier"
    /\ nIdent' = nIdent + 1
    /\ \E ok \in BOOLEAN :
         IF ok
         THEN /\ deviceId' = "ok"
              /\ InfoGoto(<<"info", "Device ID SHTC3">>, "stacks_new")
         ELSE /\ deviceId' = "err"
              /\ Exit("panic_device_identifier")
    /\ UNCHANGED <<mqtt_user, cbVars, wifiVars, waitHist, driverVars, loopVars>>

StacksNew ==
    /\ pc = "stacks_new"
    /\ \E ok \in BOOLEAN : IF ok THEN Goto("wifi_new") ELSE Exit("stacks")
    /\ UNCHANGED <<mqtt_user, cbVars, identVars, wifiVars, waitHist, driverVars, loopVars>>

(***************************************************************************)
(* wifi(), lines 143-176.                                                  *)
(***************************************************************************)
WifiReturnErr(stmt, err) ==
    /\ wifiResult' = "Err"
    /\ wifiErr' = err
    /\ wifiFail' = stmt
    /\ wifiDropped' = wifiCreated
    /\ Goto("main_wifi_result")

WifiNew ==
    /\ pc = "wifi_new"
    /\ nWifiCalls' = nWifiCalls + 1
    /\ \E ok \in BOOLEAN :
         IF ok
         THEN /\ wifiCreated' = TRUE
              /\ Goto("wifi_set_configuration")
              /\ UNCHANGED <<wifiResult, wifiErr, wifiFail, wifiDropped>>
         ELSE /\ WifiReturnErr("new", <<"EspError">>)
              /\ UNCHANGED wifiCreated
    /\ UNCHANGED <<mqtt_user, cbVars, identVars, nSetConf, nWait, elapsed, status,
                   nGetStatus, waitHist, driverVars, loopVars>>

\* set_configuration stops and restarts the driver in client mode and asks it to
\* connect: on success the interface is associating.
WifiSetConfiguration ==
    /\ pc = "wifi_set_configuration"
    /\ nSetConf' = nSetConf + 1
    /\ \E ok \in BOOLEAN :
         IF ok
         THEN /\ ifStatus' = Status("Connecting")
              /\ InfoGoto(<<"info", "Wifi configuration set, about to get status">>,
                          "wifi_wait_status")
              /\ UNCHANGED <<wifiResult, wifiErr, wifiFail, wifiDropped>>
         ELSE /\ WifiReturnErr("set_configuration", <<"EspError">>)
              /\ UNCHANGED ifStatus
    /\ UNCHANGED <<mqtt_user, cbVars, identVars, wifiCreated, nWait, elapsed, status,
                   nWifiCalls, nGetStatus, waitHist, statusChanges, loopVars>>

\* A wait that tries the deadline before the matcher.
WaitOutcome_DeadlineFirst(s, t) ==
    IF t >= WifiTimeoutSecs THEN "timeout"
    ELSE IF ~IsTransitional(s) THEN "matched"
    ELSE "sleep"

\* A wait without a deadline.
WaitOutcome_NoDeadline(s, t) ==
    IF ~IsTransitional(s) THEN "matched" ELSE "sleep"

\* wait_status_with_timeout(20 s, |status| !status.is_transitional()), one look at
\* the status: the matcher is tried first, then the deadline.
WaitOutcome(s, t) ==
    IF ~IsTransitional(s) THEN "matched"
    ELSE IF t >= WifiTimeoutSecs THEN "timeout"
    ELSE "sleep"

WifiWaitBegin ==
    /\ pc = "wifi_wait_status"
    /\ nWait' = nWait + 1
    /\ elapsed' = 0
    /\ terminalInWait' = ~IsTransitional(ifStatus)
    /\ Goto("wifi_waiting")
    /\ UNCHANGED <<mqtt_user, cbVars, identVars, wifiCreated, nSetConf, status, wifiResult,
                   wifiErr, wifiFail, nWifiCalls, nGetStatus, wifiDropped, doneAtPoll,
                   waitEndStatus, postWaitStatus, driverVars, loopVars>>

\* Lines 158-159: Ok(()) once the matcher holds; Err(status) at the deadline,
\* which map_err turns into "Unexpected Wifi status: {status}" and `?` returns.
WifiWaitPoll ==
    /\ pc = "wifi_waiting"
    /\ LET o == WaitOutcome(ifStatus, elapsed) IN
         CASE o = "matched" ->
                /\ waitEndStatus' = ifStatus
                /\ Goto("wifi_get_status")
                /\ UNCHANGED <<elapsed, wifiResult, wifiErr, wifiFail, wifiDropped>>
           [] o = "timeout" ->
                /\ WifiReturnErr("wait", <<"Unexpected Wifi status", ifStatus>>)
                /\ UNCHANGED <<elapsed, waitEndStatus>>
           [] o = "sleep" ->
                /\ elapsed' = elapsed + PollInterval
                /\ Goto("wifi_waiting")
                /\ UNCHANGED <<wifiResult, wifiErr, wifiFail, wifiDropped, waitEndStatus>>
    /\ UNCHANGED <<mqtt_user, cbVars, identVars, wifiCreated, nSetConf, nWait, status,
                   nWifiCalls, nGetStatus, terminalInWait, doneAtPoll, postWaitStatus,
                   driverVars, loopVars>>

\* The status on which the wait ended taken for the status of the interface.
WifiGetStatus_WaitStatus ==
    /\ pc = "wifi_get_status"
    /\ status' = waitEndStatus
    /\ nGetStatus' = nGetStatus + 1
    /\ Goto("wifi_check_status")
    /\ UNCHANGED <<mqtt_user, cbVars, identVars, wifiCreated, nSetConf, nWait, elapsed,
                   wifiResult, wifiErr, wifiFail, nWifiCalls, wifiDropped, waitHist,
                   driverVars, loopVars>>

\* Line 161.
WifiGetStatus ==
    /\ pc = "wifi_get_status"
    /\ status' = ifStatus
    /\ nGetStatus' = nGetStatus + 1
    /\ Goto("wifi_check_status")
    /\ UNCHANGED <<mqtt_user, cbVars, identVars, wifiCreated, nSetConf, nWait, elapsed,
                   wifiResult, wifiErr, wifiFail, nWifiCalls, wifiDropped, waitHist,
                   driverVars, loopVars>>

\* Lines 163-175.
WifiCheckStatus ==
    /\ pc = "wifi_check_status"
    /\ IF IsConnectedDone(status)
       THEN /\ wifiResult' = "Ok"
            /\ InfoGoto(<<"info", "Wifi connected">>, "main_wifi_result")
            /\ UNCHANGED <<wifiErr, wifiFail, wifiDropped>>
       ELSE WifiReturnErr("status", <<"Unexpected Wifi status", status>>)
    /\ UNCHANGED <<mqtt_user, cbVars, identVars, wifiCreated, nSetConf, nWait, elapsed, status,
                   nWifiCalls, nGetStatus, waitHist, driverVars, loopVars>>

\* The result of wifi() dropped instead of returned with `?`.
MainWifiResult_IgnoreError ==
    /\ pc = "main_wifi_result"
    /\ Goto("mqtt_client_new")
    /\ UNCHANGED <<mqtt_user, cbVars, identVars, wifiVars, waitHist, driverVars, loopVars>>

\* Lines 83-87: `let _wifi = wifi(...)?`.  The time waited is bookkeeping of the
\* call of wifi(): it ends with the call.
MainWifiResult ==
    /\ pc = "main_wifi_result"
    /\ IF wifiResult = "Ok"
       THEN /\ Goto("mqtt_client_new")
            /\ elapsed' = 0
            /\ doneAtPoll' = -1
       ELSE /\ Exit("wifi")
            /\ UNCHANGED <<elapsed, doneAtPoll>>
    /\ UNCHANGED <<mqtt_user, cbVars, identVars, wifiCreated, nSetConf, nWait, status,
                   wifiResult, wifiErr, wifiFail, nWifiCalls, nGetStatus, wifiDropped,
                   terminalInWait, waitEndStatus, postWaitStatus, driverVars, loopVars>>

(***************************************************************************)
(* The radio driver: it changes the status of the interface on its own     *)
(* task, whatever the main thread is doing.                                *)
(***************************************************************************)
InWindow == pc \in {"wifi_wait_status", "wifi_waiting"}

DriverStep ==
    /\ nSetConf > 0
    /\ wifiFail # "set_configuration"
    /\ pc # "exit"
    /\ statusChanges < MaxStatusChanges
    /\ \E c \in DriverMoves(ifStatus[1]) :
         /\ ifStatus' = Status(c)
         /\ terminalInWait' = (terminalInWait \/ (pc = "wifi_waiting" /\ ~IsTransitional(Status(c))))
         /\ doneAtPoll' = IF c = "ConnectedDone" /\ InWindow THEN elapsed ELSE -1
         /\ postWaitStatus' = IF pc = "wifi_get_status" THEN Status(c) ELSE postWaitStatus
    /\ statusChanges' = statusChanges + 1
    /\ UNCHANGED waitEndStatus
    /\ UNCHANGED <<pc, exitCause, log, mqtt_user, cbVars, identVars, wifiVars, loopVars>>

(***************************************************************************)
(* main(), lines 89-112: the MQTT client.                                  *)
(***************************************************************************)
\* A client whose construction failed and the loop entered all the same.
MqttClientNew_IgnoreError ==
    /\ pc = "mqtt_client_new"
    /\ nClientNew' = nClientNew + 1
    /\ \E ok \in BOOLEAN : clientCreated' = ok
    /\ Goto("start_measurement")
    /\ UNCHANGED <<mqtt_user, cbVars, identVars, wifiVars, waitHist, driverVars, sensor,
                   measurement, js, cycle, hist>>

MqttClientNew ==
    /\ pc = "mqtt_client_new"
    /\ nClientNew' = nClientNew + 1
    /\ \E ok \in BOOLEAN :
         IF ok
         THEN /\ clientCreated' = TRUE
              /\ Goto("start_measurement")
         ELSE /\ Exit("mqtt_client_new")
              /\ UNCHANGED clientCreated
    /\ UNCHANGED <<mqtt_user, cbVars, identVars, wifiVars, waitHist, driverVars, sensor,
                   measurement, js, cycle, hist>>

\* The events the transport hands to the callback: a message received on a
\* subscribed topic, another event of the connection, an error.
MqttEvents == {"Received", "Connected", "Err"}

\* Lines 108-111, run by the transport's task for each of its events.
CallbackLine(ev) ==
    IF ev = "Received" THEN <<"info", "MQTT Message", ev>>
    ELSE <<"warn", "Received from MQTT", ev>>

\* A callback that keeps the message it received where the loop builds its payload.
MqttCallback_WritesPayload ==
    /\ clientCreated
    /\ pc # "exit"
    /\ callbacks < MaxEvents
    /\ \E ev \in MqttEvents :
         /\ cbLog' = Append(cbLog, CallbackLine(ev))
         /\ js' = IF ev = "Received" THEN <<"received">> ELSE js
    /\ callbacks' = callbacks + 1
    /\ UNCHANGED <<pc, exitCause, log, mqtt_user, identVars, wifiVars, waitHist,
                   driverVars, clientVars, sensor, measurement, cycle, hist>>

MqttCallback ==
    /\ clientCreated
    /\ pc # "exit"
    /\ callbacks < MaxEvents
    /\ \E ev \in MqttEvents : cbLog' = Append(cbLog, CallbackLine(ev))
    /\ callbacks' = callbacks + 1
    /\ UNCHANGED <<pc, exitCause, log, mqtt_user, identVars, wifiVars, waitHist,
                   driverVars, loopVars>>

(***************************************************************************)
(* main(), lines 114-140: the loop.  hist records each step of it.         *)
(***************************************************************************)
NoEv == [op |-> "", cycle |-> 0, ok |-> TRUE, ms |-> 0, settled |-> FALSE,
         data |-> <<>>, topic |-> <<>>, qos |-> "", retain |-> FALSE]

Ev(op, ok) == [NoEv EXCEPT !.op = op, !.cycle = cycle, !.ok = ok]

Record(e) == hist' = Append(hist, e)

\* Line 115.
StartMeasurement ==
    /\ pc = "start_measurement"
    /\ \E ok \in BOOLEAN :
         /\ Record(Ev("start_measurement", ok))
         /\ IF ok
            THEN /\ sensor' = "measuring"
                 /\ Goto("settling_delay")
            ELSE /\ Exit("panic_start_measurement")
                 /\ UNCHANGED sensor
    /\ UNCHANGED <<mqtt_user, cbVars, identVars, wifiVars, waitHist, driverVars, clientVars,
                   measurement, js, cycle>>

\* The read issued right after the command, without the delay.
SettlingDelay_Skip ==
    /\ pc = "settling_delay"
    /\ Goto("get_measurement_result")
    /\ UNCHANGED <<mqtt_user, cbVars, identVars, wifiVars, waitHist, driverVars, loopVars>>

\* Line 116: the conversion the sensor was commanded to do ends during the delay.
SettlingDelay ==
    /\ pc = "settling_delay"
    /\ Record([Ev("delay_ms", TRUE) EXCEPT !.ms = SettlingDelayMs])
    /\ sensor' = IF sensor = "measuring" THEN "ready" ELSE sensor
    /\ Goto("get_measurement_result")
    /\ UNCHANGED <<mqtt_user, cbVars, identVars, wifiVars, waitHist, driverVars, clientVars,
                   measurement, js, cycle>>

\* A failed read answered by measuring again instead of unwrap().
GetMeasurementResult_Retry ==
    /\ pc = "get_measurement_result"
    /\ \E ok \in BOOLEAN :
         IF ok
         THEN \E r \in Readings :
                /\ Record([Ev("get_measurement_result", TRUE) EXCEPT
                              !.data = r, !.settled = (sensor = "ready")])
                /\ measurement' = r
                /\ sensor' = "idle"
                /\ Goto("serialize")
         ELSE /\ Record([Ev("get_measurement_result", FALSE) EXCEPT
                              !.settled = (sensor = "ready")])
              /\ Goto("start_measurement")
              /\ sensor' = "idle"
              /\ UNCHANGED measurement
    /\ UNCHANGED <<mqtt_user, cbVars, identVars, wifiVars, waitHist, driverVars, clientVars,
                   js, cycle>>

\* A failed read answered by the default reading (unwrap_or_default).
GetMeasurementResult_Default ==
    /\ pc = "get_measurement_result"
    /\ \E ok \in BOOLEAN :
         IF ok
         THEN \E r \in Readings :
                /\ Record([Ev("get_measurement_result", TRUE) EXCEPT
                              !.data = r, !.settled = (sensor = "ready")])
                /\ measurement' = r
         ELSE /\ Record([Ev("get_measurement_result", FALSE) EXCEPT
                              !.settled = (sensor = "ready")])
              /\ measurement' = <<0, 0>>
    /\ sensor' = "idle"
    /\ Goto("serialize")
    /\ UNCHANGED <<mqtt_user, cbVars, identVars, wifiVars, waitHist, driverVars, clientVars,
                   js, cycle>>

\* Line 117.
GetMeasurementResult ==
    /\ pc = "get_measurement_result"
    /\ \E ok \in BOOLEAN :
         IF ok
         THEN \E r \in Readings :
                /\ Record([Ev("get_measurement_result", TRUE) EXCEPT
                              !.data = r, !.settled = (sensor = "ready")])
                /\ measurement' = r
                /\ sensor' = "idle"
                /\ Goto("serialize")
         ELSE /\ Record([Ev("get_measurement_result", FALSE) EXCEPT
                              !.settled = (sensor = "ready")])
              /\ Exit("panic_get_measurement_result")
              /\ UNCHANGED <<measurement, sensor>>
    /\ UNCHANGED <<mqtt_user, cbVars, identVars, wifiVars, waitHist, driverVars, clientVars,
                   js, cycle>>

\* Lines 125-128.
MqttMeasurementOf(r) == [temperature |-> r[1], humidity |-> r[2]]

\* An f32 given in tenths, as serde_json writes it: sign, integer part, one decimal.
FmtF32(x) ==
    LET a == IF x < 0 THEN -x ELSE x
    IN  <<IF x < 0 THEN "-" ELSE "", a \div 10, ".", a % 10>>

\* serde_json::to_string of an MqttMeasurement (rename_all = "camelCase").
ToJson(m) ==
    <<"{", "temperature", ":">> \o FmtF32(m.temperature) \o
    <<",", "humidity", ":">> \o FmtF32(m.humidity) \o <<"}">>

\* A failed serialization answered by the empty string (unwrap_or_default).
Serialize_IgnoreError ==
    /\ pc = "serialize"
    /\ \E ok \in BOOLEAN :
         IF ok
         THEN /\ js' = ToJson(MqttMeasurementOf(measurement))
              /\ Record([Ev("to_string", TRUE) EXCEPT
                            !.data = ToJson(MqttMeasurementOf(measurement))])
         ELSE /\ js' = NoPayload
              /\ Record(Ev("to_string", FALSE))
    /\ InfoGoto(<<"info", "TEMP/HUM", measurement>>, "publish")
    /\ UNCHANGED <<mqtt_user, cbVars, identVars, wifiVars, waitHist, driverVars, clientVars,
                   sensor, measurement, cycle>>

\* Lines 119-130.
Serialize ==
    /\ pc = "serialize"
    /\ \E ok \in BOOLEAN :
         IF ok
         THEN /\ js' = ToJson(MqttMeasurementOf(measurement))
              /\ Record([Ev("to_string", TRUE) EXCEPT
                            !.data = ToJson(MqttMeasurementOf(measurement))])
              /\ InfoGoto(<<"info", "TEMP/HUM", measurement>>, "publish")
         ELSE /\ Record(Ev("to_string", FALSE))
              /\ InfoExit(<<"info", "TEMP/HUM", measurement>>, "serialize")
              /\ UNCHANGED js
    /\ UNCHANGED <<mqtt_user, cbVars, identVars, wifiVars, waitHist, driverVars, clientVars,
                   sensor, measurement, cycle>>

\* Another feed of the same account.
Topic_OtherFeed(user) == <<user, "/feeds/temperature">>

\* Line 132.
Topic(user) == <<user, "/feeds/measurement">>

\* A failed send tried again.
Publish_Retry ==
    /\ pc = "publish"
    /\ \E ok \in BOOLEAN :
         /\ Record([Ev("publish", ok) EXCEPT !.data = js, !.topic = Topic(mqtt_user),
                                             !.qos = "AtMostOnce", !.retain = FALSE])
         /\ IF ok THEN Goto("info_published") ELSE Goto("publish")
    /\ UNCHANGED <<mqtt_user, cbVars, identVars, wifiVars, waitHist, driverVars, clientVars,
                   sensor, measurement, js, cycle>>

\* A failed send not returned with `?`.
Publish_IgnoreError ==
    /\ pc = "publish"
    /\ \E ok \in BOOLEAN :
         Record([Ev("publish", ok) EXCEPT !.data = js, !.topic = Topic(mqtt_user),
                                          !.qos = "AtMostOnce", !.retain = FALSE])
    /\ Goto("info_published")
    /\ UNCHANGED <<mqtt_user, cbVars, identVars, wifiVars, waitHist, driverVars, clientVars,
                   sensor, measurement, js, cycle>>

\* A failed send answered by bringing the link up again.
Publish_Reconnect ==
    /\ pc = "publish"
    /\ \E ok \in BOOLEAN :
         /\ Record([Ev("publish", ok) EXCEPT !.data = js, !.topic = Topic(mqtt_user),
                                             !.qos = "AtMostOnce", !.retain = FALSE])
         /\ IF ok THEN Goto("info_published") ELSE Goto("wifi_new")
    /\ UNCHANGED <<mqtt_user, cbVars, identVars, wifiVars, waitHist, driverVars, clientVars,
                   sensor, measurement, js, cycle>>

\* Lines 131-136.
Publish ==
    /\ pc = "publish"
    /\ \E ok \in BOOLEAN :
         /\ Record([Ev("publish", ok) EXCEPT !.data = js, !.topic = Topic(mqtt_user),
                                             !.qos = "AtMostOnce", !.retain = FALSE])
         /\ IF ok THEN Goto("info_published") ELSE Exit("publish")
    /\ UNCHANGED <<mqtt_user, cbVars, identVars, wifiVars, waitHist, driverVars, clientVars,
                   sensor, measurement, js, cycle>>

\* Line 137.
InfoPublished ==
    /\ pc = "info_published"
    /\ Record([Ev("info_published", TRUE) EXCEPT !.data = js])
    /\ InfoGoto(<<"info", "Published message", js>>, "cycle_delay")
    /\ UNCHANGED <<mqtt_user, cbVars, identVars, wifiVars, waitHist, driverVars, clientVars,
                   sensor, measurement, js, cycle>>

\* The loop without its pause.
CycleDelay_NoPause ==
    /\ pc = "cycle_delay"
    /\ cycle < MaxCycles
    /\ measurement' = NoReading
    /\ js' = NoPayload
    /\ cycle' = cycle + 1
    /\ Goto("start_measurement")
    /\ UNCHANGED <<mqtt_user, cbVars, identVars, wifiVars, waitHist, driverVars, clientVars,
                   sensor, hist>>

\* A loop left after its first publish.
CycleDelay_Break ==
    /\ pc = "cycle_delay"
    /\ pc' = "exit"
    /\ exitCause' = "done"
    /\ UNCHANGED <<log, mqtt_user, cbVars, identVars, wifiVars, waitHist, driverVars,
                   loopVars>>

\* Lines 139-140: the pause, the end of the loop's body (its locals are dropped)
\* and the jump back to line 115.
CycleDelay ==
    /\ pc = "cycle_delay"
    /\ cycle < MaxCycles
    /\ Record([Ev("delay_ms", TRUE) EXCEPT !.ms = CycleDelayMs])
    /\ measurement' = NoReading
    /\ js' = NoPayload
    /\ cycle' = cycle + 1
    /\ Goto("start_measurement")
    /\ UNCHANGED <<mqtt_user, cbVars, identVars, wifiVars, waitHist, driverVars, clientVars,
                   sensor>>

Next ==
    \/ I2cNew
    \/ DeviceIdentifier
    \/ StacksNew
    \/ WifiNew
    \/ WifiSetConfiguration
    \/ WifiWaitBegin
    \/ WifiWaitPoll
    \/ WifiGetStatus
    \/ WifiCheckStatus
    \/ MainWifiResult
    \/ DriverStep
    \/ MqttClientNew
    \/ MqttCallback
    \/ StartMeasurement
    \/ SettlingDelay
    \/ GetMeasurementResult
    \/ Serialize
    \/ Publish
    \/ InfoPublished
    \/ CycleDelay

Spec == Init /\ [][Next]_vars

\* The main thread: every action but the driver's.  The scheduler runs it
\* whenever it can take a step (its waits are timed, not conditional).
MainThread ==
    \/ I2cNew \/ DeviceIdentifier \/ StacksNew \/ WifiNew \/ WifiSetConfiguration
    \/ WifiWaitBegin \/ WifiWaitPoll \/ WifiGetStatus \/ WifiCheckStatus
    \/ MainWifiResult \/ MqttClientNew \/ StartMeasurement \/ SettlingDelay
    \/ GetMeasurementResult \/ Serialize \/ Publish \/ InfoPublished \/ CycleDelay

FairSpec == Spec /\ WF_vars(MainThread)

(***************************************************************************)
(* Properties.                                                             *)
(***************************************************************************)
LoopPcs == {"start_measurement", "settling_delay", "get_measurement_result",
            "serialize", "publish", "info_published", "cycle_delay"}

Idx == DOMAIN hist

IsOp(i, op) == hist[i].op = op

\* The starts, reads and publishes of the loop, in the order they happened.
Steps == SelectSeq(hist, LAMBDA e : e.op \in {"start_measurement",
                                               "get_measurement_result", "publish"})

StepPattern == <<"start_measurement", "get_measurement_result", "publish">>

NumOk(op) == Cardinality({i \in Idx : IsOp(i, op) /\ hist[i].ok})

NumCalls(op) == Cardinality({i \in Idx : IsOp(i, op)})

\* C1: the loop (MQTT client, first start_measurement, first publish) is entered
\* only after wifi() has returned Ok; when wifi() fails no client is created,
\* nothing is measured or published, and the process ends without going back to
\* the start-up steps.
C1_SteadyOnlyAfterLink ==
    /\ (clientCreated \/ hist # <<>> \/ pc \in LoopPcs \cup {"mqtt_client_new"})
          => wifiResult = "Ok"
    /\ wifiResult = "Err" =>
          /\ ~clientCreated
          /\ hist = <<>>
          /\ pc \in {"main_wifi_result", "exit"}
          /\ pc = "exit" => exitCause = "wifi"
          /\ nIdent = 1

C1_Witness ==
    /\ pc = "exit"
    /\ exitCause = "wifi"
    /\ wifiFail = "status"
    /\ status = Status("Disconnected")

\* C2: wifi() returns Ok only when the status it inspected last is the composite
\* Started(Connected(Done)), which is not transitional; with any other inspected
\* status it returns an error.
C2_SuccessOnlyOnComposite ==
    /\ wifiResult = "Ok" =>
          /\ status = <<"ConnectedDone", "Stopped">>
          /\ status[1] \notin {"Connecting", "ConnectedWaiting"}
          /\ wifiFail = "none"
    /\ (wifiResult # "none" /\ status # NoStatus /\ status[1] # "ConnectedDone")
          => (wifiResult = "Err" /\ wifiFail = "status")

C2_Witness ==
    /\ wifiResult = "Ok"
    /\ status = Status("ConnectedDone")
    /\ pc = "mqtt_client_new"

\* What a caller can tell from the error wifi() returned: a time-out if the error
\* says so or carries a transitional status, an unexpected terminal status
\* otherwise.
SignalledOutcome(err) ==
    IF err[1] = "Timeout" THEN "wait"
    ELSE IF err[1] = "Unexpected Wifi status" /\ ~IsTransitional(err[2]) THEN "status"
    ELSE "wait"

\* C3: the error of wifi() tells its two failures apart: a time-out of the wait
\* is signalled as a time-out, a terminal status that is not the composite as an
\* unexpected status, and the caller can tell which of the two happened.
C3_FailuresDistinguishable ==
    wifiFail \in {"wait", "status"} => SignalledOutcome(wifiErr) = wifiFail

C5_Bounded ==
    /\ nSetConf <= 1
    /\ nWait <= 1
    /\ elapsed <= WifiTimeoutSecs + PollInterval
    /\ wifiFail = "wait" => (nSetConf = 1 /\ pc \in {"main_wifi_result", "exit"})

\* C5: wifi() always returns: the wait is bounded by the 20 s time-out plus one
\* poll interval, the configuration is applied once and the wait is entered once
\* per call, and after the time-out the failure is reported without a retry.
C5_ConnectTerminatesOnce ==
    /\ []C5_Bounded
    /\ (pc = "wifi_new") ~> (wifiResult # "none")

C5_Witness ==
    /\ wifiFail = "wait"
    /\ elapsed = WifiTimeoutSecs
    /\ nSetConf = 1
    /\ pc = "exit"

\* C6: in the loop acquisition and publication alternate: the k-th start, read
\* and publish happen in the order start, read, publish, start, ... and belong
\* to cycle 1, 1, 1, 2, 2, 2, ...; no two acquisitions and no two publishes
\* follow each other.
C6_AcquirePublishAlternate ==
    \A k \in DOMAIN Steps :
        /\ Steps[k].op = StepPattern[((k - 1) % 3) + 1]
        /\ Steps[k].cycle = ((k - 1) \div 3) + 1
        /\ k > 1 => Steps[k - 1].ok

C6_Witness ==
    /\ Len(Steps) = 6
    /\ Steps[6].op = "publish"
    /\ Steps[6].ok

\* C7: every get_measurement_result comes right after the 100 ms delay that
\* follows the one start_measurement of its cycle, so the conversion has ended
\* when it is read; start_measurement is never issued while a measurement is
\* commanded and not yet read.
C7_CommandDelayRead ==
    /\ \A i \in Idx : IsOp(i, "get_measurement_result") =>
          /\ i >= 3
          /\ IsOp(i - 1, "delay_ms") /\ hist[i - 1].ms = 100
          /\ IsOp(i - 2, "start_measurement") /\ hist[i - 2].ok
          /\ hist[i - 2].cycle = hist[i].cycle
          /\ hist[i].settled
          /\ Cardinality({j \in Idx : IsOp(j, "start_measurement")
                                       /\ hist[j].cycle = hist[i].cycle}) = 1
    /\ pc = "start_measurement" => sensor = "idle"
    /\ NumOk("start_measurement") - NumCalls("get_measurement_result") \in {0, 1}

C7_Witness ==
    /\ Len(hist) >= 3
    /\ IsOp(Len(hist), "get_measurement_result")
    /\ hist[Len(hist)].ok
    /\ hist[Len(hist)].cycle = 2

\* C8: a cycle without error sends one payload once and then pauses 500 ms before
\* the next acquisition starts; the publish calls are as many as the completed
\* acquisitions, or one fewer.
C8_OnePublishPerCycle ==
    /\ NumOk("get_measurement_result") - NumCalls("publish") \in {0, 1}
    /\ \A c \in 1..cycle :
          /\ Cardinality({i \in Idx : IsOp(i, "publish") /\ hist[i].cycle = c}) <= 1
          /\ Cardinality({i \in Idx : IsOp(i, "to_string") /\ hist[i].cycle = c}) <= 1
    /\ \A i \in Idx : (IsOp(i, "start_measurement") /\ i > 1) =>
          /\ i >= 4
          /\ IsOp(i - 1, "delay_ms") /\ hist[i - 1].ms = 500
          /\ IsOp(i - 2, "info_published")
          /\ IsOp(i - 3, "publish") /\ hist[i - 3].ok
          /\ hist[i - 3].cycle = hist[i].cycle - 1
    /\ \A i \in Idx : (IsOp(i, "delay_ms") /\ hist[i].ms = 500) =>
          /\ hist[i].cycle < cycle
          /\ Cardinality({j \in Idx : IsOp(j, "publish") /\ hist[j].ok
                                       /\ hist[j].cycle = hist[i].cycle}) = 1

C8_Witness ==
    /\ cycle = 2
    /\ Len(hist) >= 8
    /\ IsOp(8, "start_measurement")
    /\ hist[2].data = <<>> /\ hist[3].data = <<220, 500>>
    /\ hist[5].data = <<"{", "temperature", ":", "", 22, ".", 0,
                        ",", "humidity", ":", "", 50, ".", 0, "}">>

\* C9: what is published is the reading acquired in the same cycle, serialized;
\* no reading is published twice or in a later cycle, and a cycle whose sensor
\* transaction failed publishes nothing.
C9_PublishesOwnReading ==
    /\ \A i \in Idx : IsOp(i, "publish") =>
          \E j \in 1..(i - 1) :
              /\ IsOp(j, "get_measurement_result") /\ hist[j].ok
              /\ hist[j].cycle = hist[i].cycle
              /\ hist[i].data = ToJson(MqttMeasurementOf(hist[j].data))
              /\ hist[j].data = <<220, 500>> =>
                    hist[i].data = <<"{", "temperature", ":", "", 22, ".", 0,
                                     ",", "humidity", ":", "", 50, ".", 0, "}">>
    /\ \A i, k \in Idx : (IsOp(i, "publish") /\ IsOp(k, "publish") /\ i # k) =>
          hist[i].cycle # hist[k].cycle
    /\ \A j \in Idx :
          (hist[j].op \in {"start_measurement", "get_measurement_result"} /\ ~hist[j].ok) =>
              \A i \in Idx : ~(IsOp(i, "publish") /\ hist[i].cycle = hist[j].cycle)

C9_Witness ==
    /\ NumOk("publish") = 2
    /\ \E i, k \in Idx :
          /\ IsOp(i, "publish") /\ IsOp(k, "publish")
          /\ hist[i].cycle = 1 /\ hist[k].cycle = 2
          /\ hist[i].data # hist[k].data

\* C10: an error of the sensor, of the serialization or of the send ends the
\* process at once: the failed call is the last thing the loop did, nothing is
\* retried and no pause follows.
C10_ErrorEndsProcess ==
    /\ \A i \in Idx : ~hist[i].ok =>
          /\ i = Len(hist)
          /\ pc = "exit"
          /\ exitCause # "none"
    /\ \A c \in 1..cycle :
          Cardinality({i \in Idx : IsOp(i, "publish") /\ hist[i].cycle = c}) <= 1

C10_Witness ==
    /\ pc = "exit"
    /\ exitCause = "publish"
    /\ Len(hist) >= 1
    /\ IsOp(Len(hist), "publish")
    /\ ~hist[Len(hist)].ok
    /\ hist[Len(hist)].cycle = 2

WifiPcs == {"wifi_new", "wifi_set_configuration", "wifi_wait_status", "wifi_waiting",
            "wifi_get_status", "wifi_check_status", "main_wifi_result"}

\* C11: the wireless interface is created and configured only after
\* device_identifier() has succeeded; when it fails the process ends with no
\* interface created, and the identifier is asked for once per run.
C11_IdentifyBeforeLink ==
    /\ nIdent <= 1
    /\ (wifiCreated \/ nWifiCalls > 0 \/ nSetConf > 0 \/ clientCreated \/ hist # <<>>
          \/ pc \in WifiPcs \cup LoopPcs \cup {"stacks_new", "mqtt_client_new"})
          => (deviceId = "ok" /\ nIdent = 1)
    /\ deviceId = "err" =>
          /\ pc = "exit"
          /\ exitCause = "panic_device_identifier"
          /\ ~wifiCreated
          /\ nWifiCalls = 0
          /\ nSetConf = 0
          /\ ifStatus = Status("Stopped")

C11_Witness ==
    /\ deviceId = "err"
    /\ pc = "exit"
    /\ nIdent = 1
    /\ log = << <<"fatal", "panic_device_identifier">> >>

\* C12: wifi() is called once per run, before the loop: in the loop, and after a
\* failed publish, the interface has been configured once, waited for once and
\* read once, and the handle wifi() returned has not been dropped.
C12_LinkManagerOnce ==
    /\ nWifiCalls <= 1 /\ nSetConf <= 1 /\ nWait <= 1 /\ nGetStatus <= 1
    /\ (pc \in LoopPcs \cup {"mqtt_client_new"} \/ hist # <<>>) =>
          /\ nWifiCalls = 1 /\ nSetConf = 1 /\ nWait = 1 /\ nGetStatus = 1
          /\ wifiCreated
          /\ pc \notin WifiPcs
    /\ pc \in LoopPcs \cup {"mqtt_client_new"} => ~wifiDropped

C12_Witness ==
    /\ pc = "exit"
    /\ exitCause = "publish"
    /\ ifStatus = Status("Disconnected")
    /\ nWifiCalls = 1 /\ nSetConf = 1 /\ nWait = 1 /\ nGetStatus = 1
    /\ ~wifiDropped

\* The main thread has a next statement to run: it is in the loop and not at the
\* cycle where the model stops.
LoopRunnable == pc \in LoopPcs /\ ~(pc = "cycle_delay" /\ cycle >= MaxCycles)

mainVars == <<pc, exitCause, log, mqtt_user, identVars, wifiVars, waitHist, loopVars>>

\* C13: the callback only observes: a step of it changes nothing of what the
\* main thread reads or writes (position, readings, payload, history of the
\* loop), the main thread writes nothing of the callback's, and the loop can take
\* its next step whether or not the callback has run.
C13_CallbackObservational ==
    /\ [][callbacks' # callbacks => UNCHANGED mainVars]_vars
    /\ [][UNCHANGED callbacks => UNCHANGED cbLog]_vars
    /\ [](LoopRunnable => ENABLED MainThread)

C13_Witness ==
    /\ callbacks = 1
    /\ cbLog = << <<"warn", "Received from MQTT", "Connected">> >>
    /\ pc = "publish"
    /\ cycle = 2

\* C14: the loop has no end of its own: as long as no call fails it always has a
\* next step, it is left only by an error, every completed publish is followed
\* by the start of the next acquisition and every completed acquisition by a
\* publish (or by the error of the serialization).
C14_LoopNeverStops ==
    /\ [](LoopRunnable => ENABLED MainThread)
    /\ [](pc = "exit" /\ hist # <<>> => (~hist[Len(hist)].ok /\ exitCause # "none"))
    /\ \A c \in 1..(MaxCycles - 1) :
          (pc = "info_published" /\ cycle = c) ~>
              (\E i \in Idx : IsOp(i, "start_measurement") /\ hist[i].cycle = c + 1)
    /\ \A c \in 1..MaxCycles :
          (pc = "serialize" /\ cycle = c) ~>
              ((\E i \in Idx : IsOp(i, "publish") /\ hist[i].cycle = c)
                  \/ exitCause = "serialize")

C14_Witness ==
    /\ pc = "cycle_delay"
    /\ cycle = MaxCycles
    /\ NumOk("publish") = MaxCycles
    /\ NumOk("start_measurement") = MaxCycles

\* C15: every publish goes to the topic "{mqtt_user}/feeds/measurement" (for the
\* user "alice": "alice/feeds/measurement"), the same in every cycle and for every
\* reading, with QoS AtMostOnce and retain = false.
C15_FixedTopic ==
    /\ \A i \in Idx : IsOp(i, "publish") =>
          /\ hist[i].topic = <<mqtt_user, "/feeds/measurement">>
          /\ mqtt_user = "alice" => hist[i].topic = <<"alice", "/feeds/measurement">>
          /\ hist[i].qos = "AtMostOnce"
          /\ hist[i].retain = FALSE
    /\ \A i, k \in Idx : (IsOp(i, "publish") /\ IsOp(k, "publish")) =>
          hist[i].topic = hist[k].topic

C15_Witness ==
    /\ mqtt_user = "alice"
    /\ \E i, k \in Idx :
          /\ IsOp(i, "publish") /\ IsOp(k, "publish")
          /\ hist[i].cycle = 1 /\ hist[k].cycle = 2
          /\ hist[i].data # hist[k].data
          /\ hist[k].topic = <<"alice", "/feeds/measurement">>

\* The "Published message" lines of the log and the publishes that returned Ok.
PublishedLines == SelectSeq(log, LAMBDA l : l[2] = "Published message")

OkPublishes == SelectSeq(hist, LAMBDA e : e.op = "publish" /\ e.ok)

\* C16: the callback logs one line per event it is given; "Published message" is
\* logged once after each publish that returned Ok, with its payload, and never
\* after one that failed; the error that ends the process is the last line logged.
C16_DiagnosticLines ==
    /\ Len(cbLog) = callbacks
    /\ \A i \in DOMAIN cbLog :
          IF cbLog[i][3] = "Received"
          THEN cbLog[i] = <<"info", "MQTT Message", "Received">>
          ELSE cbLog[i][1] = "warn"
    /\ Len(PublishedLines) = Len(OkPublishes) - (IF pc = "info_published" THEN 1 ELSE 0)
    /\ \A k \in DOMAIN PublishedLines : PublishedLines[k][3] = OkPublishes[k].data
    /\ (hist # <<>> /\ IsOp(Len(hist), "publish") /\ ~hist[Len(hist)].ok) =>
          /\ Len(PublishedLines) = Len(OkPublishes)
          /\ Len(PublishedLines) = cycle - 1
    /\ pc = "exit" =>
          /\ log # <<>>
          /\ log[Len(log)][1] = "fatal"
          /\ log[Len(log)][2] = exitCause
    /\ \A i \in DOMAIN log : log[i][1] = "fatal" => (i = Len(log) /\ pc = "exit")

C16_Witness ==
    /\ pc = "exit"
    /\ exitCause = "publish"
    /\ cycle = 2
    /\ Len(PublishedLines) = 1
    /\ callbacks = 1
    /\ cbLog[1][2] = "MQTT Message"

\* C17: the transport's publish is called only right after the serialization of
\* this cycle's reading has succeeded, with the string it produced; when the
\* serialization fails the cycle publishes nothing and the error ends main.
C17_NoHalfSerialized ==
    /\ \A i \in Idx : IsOp(i, "publish") =>
          /\ i > 1
          /\ IsOp(i - 1, "to_string") /\ hist[i - 1].ok
          /\ hist[i - 1].cycle = hist[i].cycle
          /\ hist[i].data = hist[i - 1].data
          /\ Len(hist[i].data) = 15
    /\ \A i \in Idx : (IsOp(i, "to_string") /\ ~hist[i].ok) =>
          /\ \A k \in Idx : ~(IsOp(k, "publish") /\ hist[k].cycle = hist[i].cycle)
          /\ pc = "exit"
          /\ exitCause = "serialize"

C17_Witness ==
    /\ pc = "exit"
    /\ exitCause = "serialize"
    /\ cycle = 2
    /\ NumCalls("publish") = 1
    /\ IsOp(Len(hist), "to_string")

\* The status of the interface when line 161 read it, as the wait and the driver
\* left it: what the driver set after the wait returned, or else the status on
\* which the wait returned.
StatusAtRead == IF postWaitStatus # NoStatus THEN postWaitStatus ELSE waitEndStatus

\* C18: wifi() decides on the status read at line 161 after the wait, not on the
\* status on which the wait ended: when the driver changes the status in between,
\* wifi() fails if the later status is not Connected(Done), though the wait ended
\* on it, and never returns Ok on a status that is transitional again.
C18_DecidesOnSecondRead ==
    /\ status # NoStatus => status = StatusAtRead
    /\ (wifiResult # "none" /\ waitEndStatus # NoStatus) =>
          /\ wifiResult = "Ok" <=> StatusAtRead[1] = "ConnectedDone"
          /\ wifiResult = "Ok" => StatusAtRead[1] \notin {"Connecting", "ConnectedWaiting"}
          /\ (waitEndStatus[1] = "ConnectedDone" /\ StatusAtRead[1] # "ConnectedDone") =>
                /\ wifiResult = "Err"
                /\ wifiFail = "status"
                /\ wifiErr = <<"Unexpected Wifi status", StatusAtRead>>

C18_Witness ==
    /\ wifiResult = "Err"
    /\ waitEndStatus = Status("ConnectedDone")
    /\ postWaitStatus = Status("ConnectedWaiting")
    /\ status = Status("ConnectedWaiting")
    /\ pc = "exit"

\* C19: EspMqttClient::new is called once, after wifi() has returned Ok and
\* before the first start_measurement; when it fails the process ends with
\* nothing measured or published; the loop then runs, and publishes, without
\* waiting for an event of the transport.
C19_ClientOnceBeforeLoop ==
    /\ nClientNew <= 1
    /\ (nClientNew > 0 \/ pc = "mqtt_client_new") => wifiResult = "Ok"
    /\ pc \in WifiPcs => nClientNew = 0
    /\ (hist # <<>> \/ pc \in LoopPcs) => (clientCreated /\ nClientNew = 1)
    /\ exitCause = "mqtt_client_new" =>
          /\ pc = "exit"
          /\ hist = <<>>
          /\ ~clientCreated
    /\ pc = "start_measurement" => ENABLED StartMeasurement
    /\ pc = "publish" => ENABLED Publish

C19_Witness ==
    /\ callbacks = 0
    /\ nClientNew = 1
    /\ NumOk("publish") = 1
    /\ pc = "cycle_delay"
    /\ cycle = 1

====
